---- MODULE Spec2Model ----
(***************************************************************************)
(* Model of cards_cert_arbitrage.py: the CardsHQ scan, the PSA certificate *)
(* resolver, the comparable selection, the margin arithmetic and the text  *)
(* parsers (_clean_money, _grade_num_from_text).                            *)
(*                                                                         *)
(* Conventions.  An Optional value is a sequence: <<>> is Python's None    *)
(* and <<v>> is the value v.  Money is an integer number of cents, a fee   *)
(* rate an integer number of hundredths, a grade an integer number of      *)
(* tenths (85 is 8.5).  A text is a sequence of one-character strings.     *)
(***************************************************************************)
EXTENDS Integers, Sequences, FiniteSets, TLC

None == <<>>
Some(v) == <<v>>

\* ---------------------------------------------------------------- bounds
MaxProducts == 1      \* product links the storefront serves for a category
MaxPagesTried == 3    \* the largest max_pages a discovery is called with
MaxLinks == 2         \* product links on one category page

\* ------------------------------------------------------- program constants
PSA_HOSTS == <<"https://www.psacard.com", "https://psacard.com">>

\* ----------------------------------------------------------------- network
\* What one HTTP exchange can do: a response with a status, or an exception
\* of the requests library raised by SESSION.get.
NetOutcomes ==
  { [exc |-> "none", status |-> 200],
    [exc |-> "none", status |-> 403],
    [exc |-> "none", status |-> 404],
    [exc |-> "SSLError", status |-> 0],
    [exc |-> "ConnectionError", status |-> 0],
    [exc |-> "Timeout", status |-> 0] }

\* _proxy_wrap: the proxy URL for a target, or None when no key is set.
_proxy_wrap(key, url) ==
  IF key = "SCRAPERAPI_KEY" THEN Some(<<"https://api.scraperapi.com/", url>>)
  ELSE IF key = "ZENROWS_KEY" THEN Some(<<"https://api.zenrows.com/v1/", url>>)
  ELSE None

\* r.raise_for_status() applied to the outcome of one _get.
raise_for_status(o) ==
  IF o.exc # "none" THEN o
  ELSE IF o.status >= 400 THEN [exc |-> "HTTPError", status |-> o.status]
  ELSE o

\* a proxy retry after any failure of the direct request, not only a TLS one
FetchRetryAnyError(url, allow_proxy_fallback, force_proxy, key, d, p) ==
  IF force_proxy = "True"
  THEN IF _proxy_wrap(key, url) = None
       THEN [exc |-> "RuntimeError", status |-> 0, reqs |-> <<>>]
       ELSE [exc |-> raise_for_status(p).exc, status |-> p.status,
             reqs |-> <<"PROXY">>]
  ELSE IF raise_for_status(d).exc # "none" /\ allow_proxy_fallback /\ force_proxy = "None"
          /\ _proxy_wrap(key, url) # None
       THEN [exc |-> raise_for_status(p).exc, status |-> p.status,
             reqs |-> <<"GET", "PROXY">>]
       ELSE [exc |-> raise_for_status(d).exc, status |-> d.status,
             reqs |-> <<"GET">>]

\* _fetch: d is what the direct request does, p what the proxy request does.
\* The result carries the requests issued, in order: "GET" is a request to
\* the target itself, "PROXY" one to the proxy provider for the target.
_fetch(url, allow_proxy_fallback, force_proxy, key, d, p) ==
  IF force_proxy = "True"
  THEN IF _proxy_wrap(key, url) = None
       THEN [exc |-> "RuntimeError", status |-> 0, reqs |-> <<>>]
       ELSE [exc |-> raise_for_status(p).exc, status |-> p.status,
             reqs |-> <<"PROXY">>]
  ELSE IF d.exc = "SSLError" /\ allow_proxy_fallback /\ force_proxy = "None"
          /\ _proxy_wrap(key, url) # None
       THEN [exc |-> raise_for_status(p).exc, status |-> p.status,
             reqs |-> <<"GET", "PROXY">>]
       ELSE [exc |-> raise_for_status(d).exc, status |-> d.status,
             reqs |-> <<"GET">>]

\* ------------------------------------------------------------------- texts
Digits == <<"0", "1", "2", "3", "4", "5", "6", "7", "8", "9">>
IsDigit(c) == \E d \in 1..10 : Digits[d] = c
DigitVal(c) == (CHOOSE d \in 1..10 : Digits[d] = c) - 1
IsSpace(c) == c \in {" ", "\n", "\t"}
Upper == <<"A", "C", "D", "E", "G", "I", "M", "N", "P", "R", "S", "T">>
Lower == <<"a", "c", "d", "e", "g", "i", "m", "n", "p", "r", "s", "t">>
IsUpper(c) == \E k \in 1..Len(Upper) : Upper[k] = c
IsLower(c) == \E k \in 1..Len(Lower) : Lower[k] = c
ToLower(c) == IF IsUpper(c) THEN Lower[CHOOSE k \in 1..Len(Upper) : Upper[k] = c] ELSE c
ToUpper(c) == IF IsLower(c) THEN Upper[CHOOSE k \in 1..Len(Lower) : Lower[k] = c] ELSE c
IsCurrency(c) == c \in {"$", "EUR", "GBP"}   \* the symbols $, euro, pound

\* txt[i] exists and is a digit
DigitAt(txt, i) == i >= 1 /\ i <= Len(txt) /\ IsDigit(txt[i])

\* the number of consecutive digits of txt from position i on
RECURSIVE DigitRun(_, _)
DigitRun(txt, i) == IF DigitAt(txt, i) THEN 1 + DigitRun(txt, i + 1) ELSE 0

\* \s* : the first position at or after i that holds no whitespace
RECURSIVE SkipSpaces(_, _)
SkipSpaces(txt, i) ==
  IF i <= Len(txt) /\ IsSpace(txt[i]) THEN SkipSpaces(txt, i + 1) ELSE i

\* (?:,[0-9]{3})* from position i, greedy: the position after the last group
RECURSIVE GroupsEnd(_, _)
GroupsEnd(txt, i) ==
  IF i <= Len(txt) /\ txt[i] = "," /\ DigitRun(txt, i + 1) >= 3
  THEN GroupsEnd(txt, i + 4) ELSE i

\* (?:\.[0-9]{2})? from position i: the position after it
FracEnd(txt, i) ==
  IF i <= Len(txt) /\ txt[i] = "." /\ DigitRun(txt, i + 1) >= 2
  THEN i + 3 ELSE i

\* (?:\.\d)? from position i: the position after it
TenthEnd(txt, i) ==
  IF i <= Len(txt) /\ txt[i] = "." /\ DigitAt(txt, i + 1) THEN i + 2 ELSE i

Min(a, b) == IF a <= b THEN a ELSE b

\* The capture group of the money pattern tried at position i: the position
\* after the match, or 0 when neither alternative matches there.  Nothing
\* follows the group in the pattern, so the first alternative that matches
\* at i is the one the regex engine keeps.
MoneyAlt1End(txt, i) ==
  IF DigitRun(txt, i) >= 1
  THEN FracEnd(txt, GroupsEnd(txt, i + Min(3, DigitRun(txt, i)))) ELSE 0
MoneyAlt2End(txt, i) ==
  IF DigitRun(txt, i) >= 1 THEN FracEnd(txt, i + DigitRun(txt, i)) ELSE 0
MoneyGroupEnd(txt, i) ==
  IF MoneyAlt1End(txt, i) > 0 THEN MoneyAlt1End(txt, i) ELSE MoneyAlt2End(txt, i)

\* re.search of [\$..]\s*(group) from position i on: <<start, end>> of the
\* group of the leftmost match, or <<>>.
MoneyAt(txt, i) == IsCurrency(txt[i]) /\ MoneyGroupEnd(txt, SkipSpaces(txt, i + 1)) > 0
MoneySearch(txt, i) ==
  IF \E k \in i..Len(txt) : MoneyAt(txt, k)
  THEN LET k == CHOOSE k \in i..Len(txt) :
                  MoneyAt(txt, k) /\ \A j \in i..(k - 1) : ~MoneyAt(txt, j)
       IN <<SkipSpaces(txt, k + 1), MoneyGroupEnd(txt, SkipSpaces(txt, k + 1))>>
  ELSE <<>>

\* float(s.replace(",", "")) of a matched amount, in cents: s is digits and
\* commas, then possibly a point and two digits.
RECURSIVE IntOfDigits(_, _)
IntOfDigits(s, acc) ==
  IF s = <<>> THEN acc
  ELSE IF s[1] = "," THEN IntOfDigits(Tail(s), acc)
  ELSE IntOfDigits(Tail(s), 10 * acc + DigitVal(s[1]))
RECURSIVE PointAt(_, _)
PointAt(s, i) == IF i > Len(s) THEN 0 ELSE IF s[i] = "." THEN i ELSE PointAt(s, i + 1)
AmountCents(s) ==
  IF PointAt(s, 1) = 0 THEN 100 * IntOfDigits(s, 0)
  ELSE 100 * IntOfDigits(SubSeq(s, 1, PointAt(s, 1) - 1), 0)
       + IntOfDigits(SubSeq(s, PointAt(s, 1) + 1, Len(s)), 0)

_clean_money(txt) ==
  IF txt = <<>> THEN None
  ELSE IF MoneySearch(txt, 1) = <<>> THEN None
  ELSE Some(AmountCents(SubSeq(txt, MoneySearch(txt, 1)[1], MoneySearch(txt, 1)[2] - 1)))

\* ------------------------------------------------------------------ grades
\* re.search(r"(\d{1,2}(?:\.\d)?)") : the first digit of the text starts the
\* match; <<start, end>> or <<>>.
RECURSIVE FirstDigit(_, _)
FirstDigit(txt, i) ==
  IF i > Len(txt) THEN 0 ELSE IF IsDigit(txt[i]) THEN i ELSE FirstDigit(txt, i + 1)
GradeNumberEnd(txt, i) == TenthEnd(txt, i + Min(2, DigitRun(txt, i)))

\* int(float(g)) of a matched "d", "dd", "d.d" or "dd.d": the integer part
IntOfFloat(g) ==
  IF PointAt(g, 1) = 0 THEN IntOfDigits(g, 0)
  ELSE IntOfDigits(SubSeq(g, 1, PointAt(g, 1) - 1), 0)

\* the regex \d instead of \d{1,2}: a two-digit grade loses its second digit
GradeNumOneDigit(grade_text) ==
  IF grade_text = None \/ grade_text[1] = <<>> THEN None
  ELSE IF FirstDigit(grade_text[1], 1) = 0 THEN None
  ELSE Some(IntOfFloat(SubSeq(grade_text[1], FirstDigit(grade_text[1], 1),
                              TenthEnd(grade_text[1], FirstDigit(grade_text[1], 1) + 1) - 1)))

\* grade_text is an Optional text
_grade_num_from_text(grade_text) ==
  IF grade_text = None \/ grade_text[1] = <<>> THEN None
  ELSE IF FirstDigit(grade_text[1], 1) = 0 THEN None
  ELSE Some(IntOfFloat(SubSeq(grade_text[1], FirstDigit(grade_text[1], 1),
                              GradeNumberEnd(grade_text[1], FirstDigit(grade_text[1], 1)) - 1)))

\* txt holds the word w at position i
WordAt(txt, i, w) == i + Len(w) - 1 <= Len(txt) /\ SubSeq(txt, i, i + Len(w) - 1) = w

\* [A-Z\s\-]* from position i, greedy: the position after the run
RECURSIVE LabelRunEnd(_, _)
LabelRunEnd(txt, i) ==
  IF i <= Len(txt) /\ (IsUpper(txt[i]) \/ IsSpace(txt[i]) \/ txt[i] = "-")
  THEN LabelRunEnd(txt, i + 1) ELSE i

\* GRADE\s*:\s*([A-Z\s\-]*\d{1,2}(?:\.\d)?) tried at position i: <<start, end>>
\* of the group, or <<>>.  The run of the class ends at the first character
\* outside it, which must be a digit: no shorter run is followed by one.
GradeLabelAt(txt, i) ==
  IF WordAt(txt, i, <<"G", "R", "A", "D", "E">>)
     /\ SkipSpaces(txt, i + 5) <= Len(txt)
     /\ txt[SkipSpaces(txt, i + 5)] = ":"
     /\ DigitAt(txt, LabelRunEnd(txt, SkipSpaces(txt, i + 5) + 1))
  THEN <<SkipSpaces(txt, SkipSpaces(txt, i + 5) + 1),
         GradeNumberEnd(txt, LabelRunEnd(txt, SkipSpaces(txt, i + 5) + 1))>>
  ELSE <<>>
RECURSIVE GradeLabelSearch(_, _)
GradeLabelSearch(txt, i) ==
  IF i > Len(txt) THEN <<>>
  ELSE IF GradeLabelAt(txt, i) # <<>> THEN GradeLabelAt(txt, i)
  ELSE GradeLabelSearch(txt, i + 1)

\* PSA\s*(\d{1,2}(?:\.\d)?) searched from position i on
RECURSIVE PsaTokenSearch(_, _)
PsaTokenSearch(txt, i) ==
  IF i > Len(txt) THEN <<>>
  ELSE IF WordAt(txt, i, <<"P", "S", "A">>) /\ DigitAt(txt, SkipSpaces(txt, i + 3))
       THEN <<SkipSpaces(txt, i + 3), GradeNumberEnd(txt, SkipSpaces(txt, i + 3))>>
       ELSE PsaTokenSearch(txt, i + 1)

\* str.title(): a letter is upper case after a non-letter, lower case after a letter
title(txt) ==
  [k \in 1..Len(txt) |->
     IF k > 1 /\ (IsUpper(txt[k - 1]) \/ IsLower(txt[k - 1]))
     THEN ToLower(txt[k]) ELSE ToUpper(txt[k])]

Span(txt, m) == SubSeq(txt, m[1], m[2] - 1)

\* the explicit "PSA <n>" token tried before the "GRADE:" label
GradeTextPsaFirst(body_up) ==
  IF PsaTokenSearch(body_up, 1) # <<>>
  THEN Some(<<"P", "S", "A", " ">> \o Span(body_up, PsaTokenSearch(body_up, 1)))
  ELSE IF GradeLabelSearch(body_up, 1) # <<>>
  THEN Some(title(Span(body_up, GradeLabelSearch(body_up, 1))))
  ELSE None

\* the grade text of a product page, from its upper-cased text
grade_text_of(body_up) ==
  IF GradeLabelSearch(body_up, 1) # <<>>
  THEN Some(title(Span(body_up, GradeLabelSearch(body_up, 1))))
  ELSE IF PsaTokenSearch(body_up, 1) # <<>>
  THEN Some(<<"P", "S", "A", " ">> \o Span(body_up, PsaTokenSearch(body_up, 1)))
  ELSE None

\* ------------------------------------------------------------ certificates
\* f"{host}/cert/{cert}/psa"
CertUrl(host, cert) == <<host, "/cert/", cert, "/psa">>

\* What the two extractors read off a certificate page: html is "" for an
\* empty body; href is the target of the sales-history anchor when present.
CertPages ==
  { [html |-> "", psa_estimate |-> None, href |-> None],
    [html |-> "<html>", psa_estimate |-> None, href |-> None],
    [html |-> "<html>", psa_estimate |-> Some(16987), href |-> None],
    [html |-> "<html>", psa_estimate |-> None, href |-> Some("/auctionprices/item")],
    [html |-> "<html>", psa_estimate |-> Some(16987), href |-> Some("/auctionprices/item")] }

\* _extract_apr_url_from_cert_soup: a relative link is resolved against the host
_extract_apr_url_from_cert_soup(page, host) ==
  IF page.href = None THEN None ELSE Some(<<host, page.href[1]>>)

\* A sales-history page: the body rows of its price-by-grade table (the grade
\* of the first cell in tenths, the money value of the second cell), the
\* tokens "PSA <grade> $<price>" of the text outside such a table (loose),
\* and the money tokens of the rest of the page text.
AprPages ==
  { [rows |-> <<>>, loose |-> <<>>, extra |-> <<>>],
    [rows |-> <<>>, loose |-> <<>>, extra |-> <<5000>>],
    [rows |-> <<[grade |-> 90, price |-> Some(10000)]>>, loose |-> <<>>, extra |-> <<>>],
    [rows |-> <<[grade |-> 100, price |-> Some(30000)],
                [grade |-> 90, price |-> Some(10000)]>>, loose |-> <<>>,
     extra |-> <<20000, 500>>],
    [rows |-> <<[grade |-> 85, price |-> Some(7000)],
                [grade |-> 80, price |-> None]>>, loose |-> <<>>, extra |-> <<>>] }

\* What the headless browser reads from the rendered table, for the fallback
PwTables == { <<>>, <<[grade |-> 90, price |-> Some(10000)]>> }

\* the rows of the table from position i on: the first row of the target
\* grade (compared as int(float(.)) on both sides) that holds a money value
RECURSIVE TableMostRecent(_, _, _)
TableMostRecent(rows, grade_num, i) ==
  IF i > Len(rows) THEN None
  ELSE IF rows[i].grade \div 10 = grade_num /\ rows[i].price # None
       THEN rows[i].price
       ELSE TableMostRecent(rows, grade_num, i + 1)

\* re.search(rf"PSA\s*{grade}\s*\$([0-9\.,]+)") over the page text: the first
\* token that writes the grade as the integer itself
RECURSIVE LooseMostRecent(_, _, _)
LooseMostRecent(loose, grade_num, i) ==
  IF i > Len(loose) THEN None
  ELSE IF loose[i].grade = 10 * grade_num THEN Some(loose[i].price)
       ELSE LooseMostRecent(loose, grade_num, i + 1)

_parse_most_recent_by_grade_from_apr_soup(page, grade_num) ==
  IF TableMostRecent(page.rows, grade_num, 1) # None
  THEN TableMostRecent(page.rows, grade_num, 1)
  ELSE LooseMostRecent(page.loose, grade_num, 1)

\* table[k]["most_recent_price"] for the keys "PSA g", "PSAg", "g": the cell
\* text must name the grade exactly
RECURSIVE PwMostRecent(_, _, _)
PwMostRecent(table, grade_num, i) ==
  IF i > Len(table) THEN None
  ELSE IF table[i].grade = 10 * grade_num /\ table[i].price # None
       THEN table[i].price
       ELSE PwMostRecent(table, grade_num, i + 1)

\* the money tokens of the page text, in page order
RECURSIVE RowPrices(_, _)
RowPrices(rows, i) ==
  IF i > Len(rows) THEN <<>>
  ELSE (IF rows[i].price = None THEN <<>> ELSE <<rows[i].price[1]>>)
       \o RowPrices(rows, i + 1)
text_prices(page) ==
  RowPrices(page.rows, 1) \o [k \in 1..Len(page.loose) |-> page.loose[k].price]
  \o page.extra

\* sorted(): insertion of x into an ascending sequence
RECURSIVE Insert(_, _)
Insert(x, s) ==
  IF s = <<>> THEN <<x>>
  ELSE IF x <= s[1] THEN <<x>> \o s ELSE <<s[1]>> \o Insert(x, Tail(s))
RECURSIVE sorted(_)
sorted(s) == IF s = <<>> THEN <<>> ELSE Insert(s[1], sorted(Tail(s)))

\* a cap forgotten: every money token of the page is kept
LastAllPrices(page) == text_prices(page)

\* the lower of the two middle elements for an even count
MedianLowerMiddle(prices) ==
  IF prices = <<>> THEN None ELSE Some(sorted(prices)[((Len(prices) - 1) \div 2) + 1])

\* text_prices[:25]
RecentCap == 25
last_n_prices_of(page) == SubSeq(text_prices(page), 1, Min(RecentCap, Len(text_prices(page))))

\* sorted_vals[len(sorted_vals) // 2], with Python's 0-based index
median_recent_sales_of(prices) ==
  IF prices = <<>> THEN None ELSE Some(sorted(prices)[(Len(prices) \div 2) + 1])

\* a missing grade read as "any grade": the first priced row of the table
MostRecentAnyGrade(page, grade_num, use_playwright_apr, pw_table) ==
  IF grade_num = None
  THEN (IF RowPrices(page.rows, 1) = <<>> THEN None ELSE Some(RowPrices(page.rows, 1)[1]))
  ELSE IF _parse_most_recent_by_grade_from_apr_soup(page, grade_num[1]) # None
       THEN _parse_most_recent_by_grade_from_apr_soup(page, grade_num[1])
       ELSE IF use_playwright_apr THEN PwMostRecent(pw_table, grade_num[1], 1)
       ELSE None

\* most_recent_for_grade as _fetch_psa_comp computes it from the fetched page
\* and, when allowed and needed, from the browser's table
most_recent_of(page, grade_num, use_playwright_apr, pw_table) ==
  IF grade_num = None THEN None
  ELSE IF _parse_most_recent_by_grade_from_apr_soup(page, grade_num[1]) # None
       THEN _parse_most_recent_by_grade_from_apr_soup(page, grade_num[1])
       ELSE IF use_playwright_apr THEN PwMostRecent(pw_table, grade_num[1], 1)
       ELSE None

PsaComp(cert_url, apr_url, most_recent_for_grade, median_recent_sales, psa_estimate, last_n_prices) ==
  [cert_url |-> cert_url, apr_url |-> apr_url,
   most_recent_for_grade |-> most_recent_for_grade,
   median_recent_sales |-> median_recent_sales,
   psa_estimate |-> psa_estimate, last_n_prices |-> last_n_prices]

\* ------------------------------------------------- selection and margins
\* a selection that trusts the estimate over the realized price
EstimateFirst(most_recent, estimate, median) ==
  IF estimate # None THEN estimate
  ELSE IF most_recent # None THEN most_recent
  ELSE median

\* for v in (apr_most_recent, psa_estimate, apr_median_all): first not None
comp_value_of(most_recent, estimate, median) ==
  IF most_recent # None THEN most_recent
  ELSE IF estimate # None THEN estimate
  ELSE median

\* the same loop in test_psa_cert
chosen_value_of(most_recent, estimate, median) ==
  IF most_recent # None THEN most_recent
  ELSE IF estimate # None THEN estimate
  ELSE median

\* round(x, 2) of the rational num/den in units of 1/100: the nearest integer
\* to num/den, a tie going to the even neighbour.  (Python rounds the binary
\* double nearest to x, which away from ties is the same integer.)
RoundPos(num, den) ==
  IF 2 * (num % den) < den THEN num \div den
  ELSE IF 2 * (num % den) > den THEN (num \div den) + 1
  ELSE IF (num \div den) % 2 = 0 THEN num \div den
  ELSE (num \div den) + 1
Round(num, den) == IF den > 0 THEN RoundPos(num, den) ELSE RoundPos(0 - num, 0 - den)

\* comp_value * (1 - fee_rate) - ship_out, in 1/100 of a cent
expected_net_of(comp_value, fee_rate, ship_out) ==
  comp_value * (100 - fee_rate) - 100 * ship_out

\* the ROI taken from the rounded expected net
RoiFromRounded(expected_net, price) ==
  [num |-> 100 * (100 * Round(expected_net, 100) - 100 * price), den |-> price]

\* (expected_net - price) / price * 100, in 1/100 of a percent, as a fraction
roi_pct_of(expected_net, price) ==
  [num |-> 100 * (expected_net - 100 * price), den |-> price]

\* the guard without the test "it.price > 0"
MarginTruthyPrice(comp_value, price) == comp_value # None /\ price # None /\ price[1] # 0

\* comp_value is not None and it.price and it.price > 0
margin_defined(comp_value, price) ==
  comp_value # None /\ price # None /\ price[1] # 0 /\ price[1] > 0

\* ------------------------------------------------------------------- state
VARIABLES
  cfg,          \* the parameters of the call and the environment's proxy key
  pc,           \* where the call is: discover, scrape, comps, cert, apr, done, raised
  page,         \* _discover_product_urls_for_category: the page number
  n_urls,       \* the number of product URLs discovered
  idx,          \* the number of product pages scraped
  found_items,  \* the PSA-like items not yet turned into rows
  cur,          \* the item (scan) or the cert and grade (test) being looked up
  host,         \* _psa_cert_info: the index of the host being tried
  attempts,     \* _psa_cert_info: "ok" or "failed" for each host tried
  info,         \* Optional result of _psa_cert_info
  apr_exc,      \* the exception of the sales-history fetch, "none" without one
  comp,         \* Optional PsaComp of the last lookup that returned
  locals,       \* Optional comp_value, expected_net, roi_pct of the last row
  rows,         \* the output rows, in the order appended
  test_out,     \* Optional result of test_psa_cert
  raised,       \* the exception that left the call, and where it arose
  prev,         \* the kind of the last event before the last step
  events,       \* the requests and throttles of the last step, in order
  mp,           \* the money parser's input and output
  gp,           \* the grade parser's input and output
  ep,           \* the estimate extractor's input and output
  ap,           \* the sales-history reduction's input and outputs
  fp,           \* one _fetch call's input and outcome
  dc,           \* one category discovery's parameters and progress
  lc,           \* one capped scan's parameters, counts and rows
  cr            \* one category crawl's pages and discovered URLs

scanVars == <<cfg, pc, page, n_urls, idx, found_items, cur, host, attempts, info,
              apr_exc, comp, locals, rows, test_out, raised, prev, events>>
vars == <<cfg, pc, page, n_urls, idx, found_items, cur, host, attempts, info,
          apr_exc, comp, locals, rows, test_out, raised, prev, events, mp, gp,
          ep, ap, fp, dc, lc, cr>>
unitVars == <<ep, ap, fp, dc, lc, cr>>

max_pages == 200

Config(entry, force_proxy, key, use_playwright_apr, fee_rate, ship_out) ==
  [entry |-> entry, force_proxy |-> force_proxy, key |-> key,
   use_playwright_apr |-> use_playwright_apr, limit_per_category |-> None,
   fee_rate |-> fee_rate, ship_out |-> ship_out]

\* The calls explored: entry is the function called, force_proxy the network
\* mode (None, False, True), key the proxy key the environment sets, fee_rate
\* in hundredths and ship_out in cents.
Configs ==
  { Config("scan", "None", "", FALSE, 13, 500),
    Config("scan", "None", "SCRAPERAPI_KEY", TRUE, 13, 500),
    Config("scan", "None", "ZENROWS_KEY", FALSE, 0, 0),
    Config("scan", "False", "SCRAPERAPI_KEY", TRUE, 7, 250),
    Config("scan", "True", "SCRAPERAPI_KEY", FALSE, 13, 500),
    Config("scan", "True", "", FALSE, 13, 500),
    Config("test", "None", "SCRAPERAPI_KEY", TRUE, 13, 500),
    Config("test", "False", "", FALSE, 13, 500),
    Config("test", "True", "", FALSE, 13, 500),
    Config("test", "True", "SCRAPERAPI_KEY", TRUE, 13, 500) }

Cert == "12345678"
PsaNine == <<"P", "S", "A", " ", "9">>
GradeMintEight == <<"G", "R", "A", "D", "E", ":", " ", "M", "I", "N", "T", " ", "8">>

\* What a product page yields to the price, certificate and title extraction,
\* and its upper-cased text as far as the grade patterns read it.
ProductPages ==
  { [price |-> Some(6000), psa_cert |-> Some(Cert), body_up |-> PsaNine, psa_in_name |-> FALSE],
    [price |-> Some(100), psa_cert |-> Some(Cert), body_up |-> PsaNine, psa_in_name |-> FALSE],
    [price |-> Some(0), psa_cert |-> Some(Cert), body_up |-> GradeMintEight, psa_in_name |-> FALSE],
    [price |-> Some(-100), psa_cert |-> Some(Cert), body_up |-> PsaNine, psa_in_name |-> TRUE],
    [price |-> None, psa_cert |-> Some(Cert), body_up |-> <<>>, psa_in_name |-> FALSE],
    [price |-> Some(6000), psa_cert |-> None, body_up |-> PsaNine, psa_in_name |-> FALSE],
    [price |-> Some(6000), psa_cert |-> None, body_up |-> <<>>, psa_in_name |-> FALSE] }

\* the StoreItem of a product page
StoreItem(pg) ==
  [price |-> pg.price,
   psa_grade_text |-> grade_text_of(pg.body_up),
   psa_grade_num |-> _grade_num_from_text(grade_text_of(pg.body_up)),
   psa_cert |-> pg.psa_cert,
   psa_in_name |-> pg.psa_in_name]

is_psa_like(item) ==
  item.psa_cert # None \/ item.psa_grade_num # None \/ item.psa_in_name
  \/ (item.psa_grade_text # None /\ WordAt(item.psa_grade_text[1], 1, <<"P", "S", "A", " ">>))

\* a cap that lets one more listing through
LimitExceeded(limit_per_category, n_found) ==
  /\ limit_per_category # None /\ limit_per_category[1] # 0
  /\ n_found > limit_per_category[1]
\* "limit_per_category and len(found_items) >= limit_per_category"
limit_reached(limit_per_category, n_found) ==
  /\ limit_per_category # None /\ limit_per_category[1] # 0
  /\ n_found >= limit_per_category[1]

\* --------------------------------------------------------------- events
Throttle == "throttle"
LastKind(evs, before) == IF evs = <<>> THEN before ELSE evs[Len(evs)]

\* The pairs <<d, p>> of what the direct and the proxy request of one _fetch
\* can do; a request _fetch does not issue is given the one outcome Ok.
Ok == [exc |-> "none", status |-> 200]
NetChoices(force_proxy, key) ==
  IF force_proxy = "True"
  THEN IF key = "" THEN {<<Ok, Ok>>} ELSE {<<Ok, p>> : p \in NetOutcomes}
  ELSE {<<d, Ok>> : d \in {o \in NetOutcomes : o.exc # "SSLError"}}
       \cup (IF force_proxy = "None" /\ key # ""
             THEN {<<[exc |-> "SSLError", status |-> 0], p>> : p \in NetOutcomes}
             ELSE {<<[exc |-> "SSLError", status |-> 0], Ok>>})

\* ------------------------------------------------------------------- rows
Row(item, c, expected_net, roi_pct) ==
  [StorePrice |-> item.price,
   PsaCert |-> item.psa_cert,
   PsaCertUrl |-> IF c = None THEN None ELSE Some(c[1].cert_url),
   PsaAprUrl |-> IF c = None THEN None ELSE c[1].apr_url,
   PsaEstimate |-> IF c = None THEN None ELSE c[1].psa_estimate,
   AprMostRecent |-> IF c = None THEN None ELSE c[1].most_recent_for_grade,
   AprMedianRecent |-> IF c = None THEN None ELSE c[1].median_recent_sales,
   ExpectedNet |-> IF expected_net = None THEN None ELSE Some(Round(expected_net[1], 100)),
   Roi |-> IF roi_pct = None THEN None ELSE Some(Round(roi_pct[1].num, roi_pct[1].den))]

\* comp_value, expected_net and roi_pct of one iteration of the comps loop
CompValueOf(c) ==
  IF c = None THEN None
  ELSE comp_value_of(c[1].most_recent_for_grade, c[1].psa_estimate, c[1].median_recent_sales)
ExpectedNetOf(item, c) ==
  IF margin_defined(CompValueOf(c), item.price)
  THEN Some(expected_net_of(CompValueOf(c)[1], cfg.fee_rate, cfg.ship_out)) ELSE None
RoiPctOf(item, c) ==
  IF margin_defined(CompValueOf(c), item.price)
  THEN Some(roi_pct_of(ExpectedNetOf(item, c)[1], item.price[1])) ELSE None

\* the dict test_psa_cert returns
TestResult(c) ==
  [PsaCertUrl |-> c.cert_url, PsaAprUrl |-> c.apr_url, PsaEstimate |-> c.psa_estimate,
   AprMostRecent |-> c.most_recent_for_grade, AprMedianRecent |-> c.median_recent_sales,
   ChosenValue |-> chosen_value_of(c.most_recent_for_grade, c.psa_estimate,
                                   c.median_recent_sales)]

\* ----------------------------------------------------------------- actions
NoRaise == [exc |-> "none", at |-> "none"]
UnitsIdle ==
  ep = None /\ ap = None /\ fp = None /\ dc = None /\ lc = None /\ cr = None
ParsersIdle == mp = None /\ gp = None /\ UnitsIdle

Init ==
  /\ cfg \in Configs
  /\ pc = IF cfg.entry = "scan" THEN "discover" ELSE "cert"
  /\ page = 1 /\ n_urls = 0 /\ idx = 0 /\ found_items = <<>>
  /\ cur \in IF cfg.entry = "scan" THEN {None}
             ELSE {Some([price |-> None, psa_grade_text |-> None, psa_grade_num |-> g,
                         psa_cert |-> Some(Cert), psa_in_name |-> FALSE])
                   : g \in {None, Some(9)}}
  /\ host = 1 /\ attempts = <<>> /\ info = None /\ apr_exc = "none"
  /\ comp = None /\ locals = None /\ rows = <<>> /\ test_out = None
  /\ raised = NoRaise /\ prev = "none" /\ events = <<>>
  /\ ParsersIdle

\* the bookkeeping every step shares
Log(evs) == events' = evs /\ prev' = LastKind(events, prev)

\* an exception leaves the call
Raise(exc, at, evs) ==
  /\ pc' = "raised" /\ raised' = [exc |-> exc, at |-> at] /\ Log(evs)
  /\ UNCHANGED <<cfg, page, n_urls, idx, found_items, cur, host, info,
                 comp, locals, rows, test_out, mp, gp, unitVars>>

\* One iteration of the while loop of _discover_product_urls_for_category:
\* k is the number of product links of the page not seen before.
DiscoverPage ==
  /\ pc = "discover" /\ page <= max_pages
  /\ \E dp \in NetChoices(cfg.force_proxy, cfg.key) :
       LET r == _fetch(<<"category", page>>, TRUE, cfg.force_proxy, cfg.key, dp[1], dp[2]) IN
       IF r.exc # "none"
       THEN Raise(r.exc, "discover", r.reqs) /\ UNCHANGED <<attempts, apr_exc>>
       ELSE \E k \in 0..(MaxProducts - n_urls) :
            /\ n_urls' = n_urls + k
            /\ page' = IF k = 0 THEN page ELSE page + 1
            /\ pc' = IF k > 0 /\ page + 1 <= max_pages THEN "discover"
                     ELSE IF n_urls + k = 0 THEN "done" ELSE "scrape"
            /\ Log(r.reqs \o (IF k = 0 THEN <<>> ELSE <<Throttle>>))
            /\ UNCHANGED <<cfg, idx, found_items, cur, host, attempts, info, apr_exc,
                           comp, locals, rows, test_out, raised, mp, gp, unitVars>>

\* One iteration of the product loop of scan_selected_categories.
ScrapeProduct ==
  /\ pc = "scrape" /\ idx < n_urls
  /\ \E dp \in NetChoices(cfg.force_proxy, cfg.key) :
       LET r == _fetch(<<"product", idx + 1>>, TRUE, cfg.force_proxy, cfg.key, dp[1], dp[2]) IN
       IF r.exc # "none"
       THEN Raise(r.exc, "scrape", <<Throttle>> \o r.reqs)
            /\ UNCHANGED <<attempts, apr_exc>>
       ELSE \E pg \in ProductPages :
            LET item == StoreItem(pg)
                items == IF is_psa_like(item) THEN Append(found_items, item) ELSE found_items
                stop == /\ is_psa_like(item)
                        /\ limit_reached(cfg.limit_per_category, Len(items))
            IN
            /\ found_items' = items
            /\ idx' = idx + 1
            /\ pc' = IF idx + 1 < n_urls /\ ~stop THEN "scrape"
                     ELSE IF items = <<>> THEN "done" ELSE "comps"
            /\ Log(<<Throttle>> \o r.reqs)
            /\ UNCHANGED <<cfg, page, n_urls, cur, host, attempts, info, apr_exc,
                           comp, locals, rows, test_out, raised, mp, gp, unitVars>>

\* The end of one iteration of the comps loop (c is comp, None after a caught
\* HTTPError), or the end of test_psa_cert.
Finish(c, evs) ==
  /\ Log(evs)
  /\ comp' = c
  /\ IF cfg.entry = "scan"
     THEN /\ rows' = Append(rows, Row(cur[1], c, ExpectedNetOf(cur[1], c), RoiPctOf(cur[1], c)))
          /\ locals' = Some([comp_value |-> CompValueOf(c),
                             expected_net |-> ExpectedNetOf(cur[1], c),
                             roi_pct |-> RoiPctOf(cur[1], c)])
          /\ found_items' = Tail(found_items)
          /\ pc' = IF Tail(found_items) = <<>> THEN "done" ELSE "comps"
          /\ test_out' = test_out
     ELSE /\ test_out' = Some(TestResult(c[1]))
          /\ pc' = "done"
          /\ UNCHANGED <<rows, locals, found_items>>
  /\ UNCHANGED <<cfg, page, n_urls, idx, cur, host, raised, mp, gp, unitVars>>

\* The head of one iteration of the comps loop: the throttle, and the row of
\* a listing without a certificate id.
BeginListing ==
  /\ pc = "comps"
  /\ LET it == Head(found_items) IN
     IF it.psa_cert = None
     THEN /\ rows' = Append(rows, Row(it, None, None, None))
          /\ found_items' = Tail(found_items)
          /\ pc' = IF Tail(found_items) = <<>> THEN "done" ELSE "comps"
          /\ cur' = Some(it)
          /\ locals' = None /\ comp' = None /\ info' = None /\ attempts' = <<>>
          /\ apr_exc' = "none"
          /\ Log(<<Throttle>>)
          /\ UNCHANGED <<cfg, page, n_urls, idx, host, test_out, raised, mp, gp, unitVars>>
     ELSE /\ cur' = Some(it)
          /\ pc' = "cert" /\ host' = 1 /\ attempts' = <<>> /\ info' = None
          /\ apr_exc' = "none"
          /\ Log(<<Throttle>>)
          /\ UNCHANGED <<cfg, page, n_urls, idx, found_items, comp, locals, rows,
                         test_out, raised, mp, gp, unitVars>>

\* One iteration of the host loop of _psa_cert_info, and what follows it in
\* _fetch_psa_comp when the loop ends: pg is the page the host serves, pw_ok
\* whether the browser fetch of it succeeds.
NoPage == [html |-> "", psa_estimate |-> None, href |-> None]
\* a loop that does not return on the first usable page
TryNextAlways(html, h) == h < Len(PSA_HOSTS)
\* "if not html: continue" while a host remains; a usable page returns
try_next_host(html, h) == html = "" /\ h < Len(PSA_HOSTS)
CertTry ==
  /\ pc = "cert"
  /\ \E dp \in NetChoices(cfg.force_proxy, cfg.key) :
       LET h == PSA_HOSTS[host]
           cert_url == CertUrl(h, cur[1].psa_cert[1])
           r == _fetch(cert_url, TRUE, cfg.force_proxy, cfg.key, dp[1], dp[2])
           use_pw == r.exc = "HTTPError" /\ r.status = 403 /\ cfg.use_playwright_apr
       IN
       IF r.exc \notin {"none", "SSLError", "HTTPError"}
       THEN Raise(r.exc, "cert", r.reqs) /\ attempts' = Append(attempts, "failed")
            /\ apr_exc' = apr_exc
       ELSE \E pg \in (IF r.exc = "none" \/ use_pw THEN CertPages ELSE {NoPage}) :
            LET html == pg.html
                evs == r.reqs \o (IF use_pw THEN <<"PW">> ELSE <<>>)
                tried == Append(attempts, IF html = "" THEN "failed" ELSE "ok")
                result == IF html # ""
                          THEN [cert_url |-> cert_url,
                                apr_url |-> _extract_apr_url_from_cert_soup(pg, h),
                                psa_estimate |-> pg.psa_estimate]
                          ELSE [cert_url |-> cert_url, apr_url |-> None,
                                psa_estimate |-> None]
            IN
            IF try_next_host(html, host)
            THEN /\ host' = host + 1 /\ attempts' = tried /\ Log(evs)
                 /\ UNCHANGED <<cfg, pc, page, n_urls, idx, found_items, cur, info,
                                apr_exc, comp, locals, rows, test_out, raised, mp, gp, unitVars>>
            ELSE IF result.apr_url # None
            THEN /\ info' = Some(result) /\ attempts' = tried /\ pc' = "apr" /\ Log(evs)
                 /\ UNCHANGED <<cfg, page, n_urls, idx, found_items, cur, host, apr_exc,
                                comp, locals, rows, test_out, raised, mp, gp, unitVars>>
            ELSE /\ info' = Some(result) /\ apr_exc' = apr_exc /\ attempts' = tried
                 /\ Finish(Some(PsaComp(result.cert_url, None, None, None,
                                        result.psa_estimate, <<>>)), evs)

\* The rest of _fetch_psa_comp once a sales-history link is known: pg is the
\* page served, pw_table what the browser fallback reads.
AprFetch ==
  /\ pc = "apr"
  /\ \E dp \in NetChoices(cfg.force_proxy, cfg.key) :
       LET apr_url == info[1].apr_url[1]
           r == _fetch(apr_url, TRUE, cfg.force_proxy, cfg.key, dp[1], dp[2])
           grade_num == cur[1].psa_grade_num
       IN
       IF r.exc = "none"
       THEN \E pg \in AprPages :
            LET use_pw == /\ grade_num # None /\ cfg.use_playwright_apr
                          /\ _parse_most_recent_by_grade_from_apr_soup(pg, grade_num[1]) = None
            IN
            \E pw_table \in (IF use_pw THEN PwTables ELSE {<<>>}) :
            /\ Finish(Some(PsaComp(info[1].cert_url, info[1].apr_url,
                             most_recent_of(pg, grade_num, cfg.use_playwright_apr, pw_table),
                             median_recent_sales_of(last_n_prices_of(pg)),
                             info[1].psa_estimate, last_n_prices_of(pg))),
                      r.reqs \o (IF use_pw THEN <<"PW">> ELSE <<>>) \o <<Throttle>>)
            /\ UNCHANGED <<attempts, info, apr_exc>>
       ELSE IF r.exc = "HTTPError" /\ cfg.entry = "scan"
       THEN /\ Finish(None, r.reqs) /\ apr_exc' = r.exc
            /\ UNCHANGED <<attempts, info>>
       ELSE /\ Raise(r.exc, "apr", r.reqs) /\ apr_exc' = r.exc
            /\ UNCHANGED attempts

Next == DiscoverPage \/ ScrapeProduct \/ BeginListing \/ CertTry \/ AprFetch

Spec == Init /\ [][Next]_vars

\* ------------------------------------------------- the parsers on their own
\* the scan and the certificate test are not running
ScanOff ==
  /\ cfg = Config("scan", "None", "", FALSE, 13, 500)
  /\ pc = "off"
  /\ page = 1 /\ n_urls = 0 /\ idx = 0 /\ found_items = <<>> /\ cur = None
  /\ host = 1 /\ attempts = <<>> /\ info = None /\ apr_exc = "none"
  /\ comp = None /\ locals = None /\ rows = <<>> /\ test_out = None
  /\ raised = NoRaise /\ prev = "none" /\ events = <<>>

\* the decimal digits of a natural number
RECURSIVE DigitsOf(_)
DigitsOf(n) ==
  IF n < 10 THEN <<Digits[n + 1]>> ELSE DigitsOf(n \div 10) \o <<Digits[(n % 10) + 1]>>
Pad3(m) == <<Digits[(m \div 100) + 1], Digits[((m \div 10) % 10) + 1], Digits[(m % 10) + 1]>>
RECURSIVE GroupedDigitsOf(_)
GroupedDigitsOf(n) ==
  IF n < 1000 THEN DigitsOf(n)
  ELSE GroupedDigitsOf(n \div 1000) \o <<",">> \o Pad3(n % 1000)

\* A currency amount as written: the symbol, the digits of the whole part n
\* with or without thousands grouping, and the two digits of frac if any.
AmountText(a) ==
  <<a.sym>>
  \o (IF a.grouped THEN GroupedDigitsOf(a.n) ELSE DigitsOf(a.n))
  \o (IF a.frac = None THEN <<>>
      ELSE <<".", Digits[(a.frac[1] \div 10) + 1], Digits[(a.frac[1] % 10) + 1]>>)
AmountValue(a) == 100 * a.n + (IF a.frac = None THEN 0 ELSE a.frac[1])

Amounts ==
  [sym : {"$", "EUR", "GBP"}, n : {0, 5, 50, 999, 1000, 1234, 12345, 1234567},
   frac : {None, Some(0), Some(5), Some(50)}, grouped : BOOLEAN]
\* text around the amount that holds no amount of its own
Before == { <<>>, <<"N", "o", "w", " ">>, <<"P", "r", "i", "c", "e", ":", " ">> }
After == { <<>>, <<" ", "e", "a", "c", "h">> }

InitMoney ==
  /\ ScanOff /\ gp = None /\ UnitsIdle
  /\ \E a \in Amounts, b \in Before, e \in After :
       mp = Some([amount |-> a, txt |-> b \o AmountText(a) \o e, done |-> FALSE,
                  out |-> None])

\* _clean_money applied to the text
CleanMoney ==
  /\ mp # None /\ ~mp[1].done
  /\ mp' = Some([mp[1] EXCEPT !.done = TRUE, !.out = _clean_money(mp[1].txt)])
  /\ UNCHANGED <<scanVars, gp, unitVars>>

NextMoney == CleanMoney
SpecMoney == InitMoney /\ [][NextMoney]_vars

\* A grade as written, from its value in tenths: "9", "10", "8.5"
GradeNumberText(g) ==
  DigitsOf(g \div 10) \o (IF g % 10 = 0 THEN <<>> ELSE <<".", Digits[(g % 10) + 1]>>)
PsaToken(g) == <<"P", "S", "A", " ">> \o GradeNumberText(g)

\* the descriptors of a "GRADE:" label, upper-cased as on the page and as
\* str.title() writes them
Descriptors ==
  { [up |-> <<>>, titled |-> <<>>],
    [up |-> <<"M", "I", "N", "T", " ">>, titled |-> <<"M", "i", "n", "t", " ">>],
    [up |-> <<"G", "E", "M", " ", "M", "T", " ">>,
     titled |-> <<"G", "e", "m", " ", "M", "t", " ">>] }
LabelToken(l) ==
  <<"G", "R", "A", "D", "E", ":", " ">> \o l.desc.up \o GradeNumberText(l.grade)

WholeGrades == {10 * n : n \in 1..10}
HalfGrades == {15, 85, 95}
PageGrades == {80, 85, 90, 100}
NoDigitTexts ==
  { None, Some(<<>>), Some(<<"P", "S", "A">>),
    Some(<<"G", "e", "m", " ", "M", "i", "n", "t">>) }
Separators == { <<" ">>, <<" ", "|", " ">> }

\* the upper-cased text of a product page that holds the tokens given
PageText(in) ==
  LET a == IF in.psa = None THEN <<>> ELSE PsaToken(in.psa[1])
      b == IF in.label = None THEN <<>> ELSE LabelToken(in.label[1])
      sep == IF in.psa = None \/ in.label = None THEN <<>> ELSE in.sep
  IN <<"C", "A", "R", "D", " ">>
     \o (IF in.psa_first THEN a \o sep \o b ELSE b \o sep \o a)

GradeTextInputs ==
  {[kind |-> "text", grade |-> Some(g), txt |-> Some(PsaToken(g))]
     : g \in WholeGrades \cup HalfGrades}
  \cup {[kind |-> "text", grade |-> None, txt |-> t] : t \in NoDigitTexts}
GradePageInputs ==
  [kind : {"page"}, psa : {None} \cup {Some(g) : g \in PageGrades},
   label : {None} \cup {Some(l) : l \in [desc : Descriptors, grade : PageGrades]},
   psa_first : BOOLEAN, sep : Separators]

InitGrade ==
  /\ ScanOff /\ mp = None /\ UnitsIdle
  /\ \E in \in GradeTextInputs \cup GradePageInputs :
       gp = Some([in |-> in, done |-> FALSE, grade_text |-> None, grade_num |-> None])

\* _grade_num_from_text applied to a grade text
GradeNumFromText ==
  /\ gp # None /\ ~gp[1].done /\ gp[1].in.kind = "text"
  /\ gp' = Some([gp[1] EXCEPT !.done = TRUE, !.grade_text = gp[1].in.txt,
                              !.grade_num = _grade_num_from_text(gp[1].in.txt)])
  /\ UNCHANGED <<scanVars, mp, unitVars>>

\* the grade part of _scrape_cardshq_product applied to a page text
ScrapeGrade ==
  /\ gp # None /\ ~gp[1].done /\ gp[1].in.kind = "page"
  /\ gp' = Some([gp[1] EXCEPT
                   !.done = TRUE,
                   !.grade_text = grade_text_of(PageText(gp[1].in)),
                   !.grade_num = _grade_num_from_text(grade_text_of(PageText(gp[1].in)))])
  /\ UNCHANGED <<scanVars, mp, unitVars>>

NextGrade == GradeNumFromText \/ ScrapeGrade
SpecGrade == InitGrade /\ [][NextGrade]_vars

\* ------------------------------------------- the estimate extractor alone
\* re.compile(r"PSA\s*Estimate", re.I) tried at position i: the position
\* after the match, or 0
WordAtNoCase(txt, i, w) ==
  /\ i + Len(w) - 1 <= Len(txt)
  /\ \A k \in 1..Len(w) : ToUpper(txt[i + k - 1]) = w[k]
EstLabelEnd(txt, i) ==
  IF WordAtNoCase(txt, i, <<"P", "S", "A">>)
     /\ WordAtNoCase(txt, SkipSpaces(txt, i + 3), <<"E", "S", "T", "I", "M", "A", "T", "E">>)
  THEN SkipSpaces(txt, i + 3) + 8 ELSE 0

\* soup.find(string=...): whether one text node holds the whole label
HasEstLabel(txt, i) == \E k \in i..Len(txt) : EstLabelEnd(txt, k) > 0

\* the position of the first "$" at or after i, or 0
NextDollar(txt, i) ==
  IF \E k \in i..Len(txt) : txt[k] = "$"
  THEN CHOOSE k \in i..Len(txt) : txt[k] = "$" /\ \A j \in i..(k - 1) : txt[j] # "$"
  ELSE 0

\* [^$]{0,250}\$\s*(group) after a label that ends before position e: the
\* "$" has to be the first one after the label and at most 250 characters
\* away; the value of the group, or None
EstAmountAfter(txt, e) ==
  IF NextDollar(txt, e) > 0 /\ NextDollar(txt, e) - e <= 250
     /\ MoneyGroupEnd(txt, SkipSpaces(txt, NextDollar(txt, e) + 1)) > 0
  THEN Some(AmountCents(SubSeq(txt, SkipSpaces(txt, NextDollar(txt, e) + 1),
              MoneyGroupEnd(txt, SkipSpaces(txt, NextDollar(txt, e) + 1)) - 1)))
  ELSE None

\* re.search of the fallback pattern over the page text, from position i on
EstMatchAt(txt, i) ==
  EstLabelEnd(txt, i) > 0 /\ EstAmountAfter(txt, EstLabelEnd(txt, i)) # None
EstFallbackSearch(txt, i) ==
  IF \E k \in i..Len(txt) : EstMatchAt(txt, k)
  THEN LET k == CHOOSE k \in i..Len(txt) :
                  EstMatchAt(txt, k) /\ \A j \in i..(k - 1) : ~EstMatchAt(txt, j)
       IN EstAmountAfter(txt, EstLabelEnd(txt, k))
  ELSE None

\* for sib in cont.find_all(True): the first element, in document order,
\* whose text holds a money amount gives the value
RECURSIVE ContainerMoney(_, _)
ContainerMoney(elems, i) ==
  IF i > Len(elems) THEN None
  ELSE IF _clean_money(elems[i]) # None THEN _clean_money(elems[i])
       ELSE ContainerMoney(elems, i + 1)

\* _extract_psa_estimate_from_cert_soup of a parsed page: label is the text
\* node found (None without one), parent and grand the texts of the
\* descendant elements of the label's parent and of its parent in document
\* order, parent_text the text of the label's parent, text the page text.
_extract_psa_estimate_from_cert_soup(soup) ==
  IF soup.label # None /\ ContainerMoney(soup.parent, 1) # None
  THEN ContainerMoney(soup.parent, 1)
  ELSE IF soup.label # None /\ ContainerMoney(soup.grand, 1) # None
  THEN ContainerMoney(soup.grand, 1)
  ELSE IF soup.label # None /\ _clean_money(soup.parent_text) # None
  THEN _clean_money(soup.parent_text)
  ELSE EstFallbackSearch(soup.text, 1)

\* get_text(" ", strip=True): the non-empty strings joined by one space
RECURSIVE GetText(_)
GetText(strings) ==
  IF strings = <<>> THEN <<>>
  ELSE IF Head(strings) = <<>> THEN GetText(Tail(strings))
  ELSE IF GetText(Tail(strings)) = <<>> THEN Head(strings)
  ELSE Head(strings) \o <<" ">> \o GetText(Tail(strings))

Filler(n) == [k \in 1..n |-> "x"]

EstimateLabel == <<"P", "S", "A", " ", "E", "s", "t", "i", "m", "a", "t", "e">>
EstimateAmount == <<"$", "1", "6", "9", ".", "8", "7">>
OtherAmount == <<"F", "e", "e", " ", "$", "5", ".", "0", "0">>
NoAmount == <<"C", "e", "r", "t">>

\* Certificate pages of the shape
\*   <p>outer_pre</p>
\*   <div> <span>pre</span> <td>LABEL filler [amount]<b>[amount]</b></td>
\*         <span>[amount]</span> </div>
\*   <p>[amount]</p>
\* where the amount "$169.87" stands in the place `where` names, gap filler
\* characters follow the label, and with split the label is written
\* <b>PSA</b> Estimate, so that no single text node holds it.
EstimateInputs ==
  [split : BOOLEAN, outer_pre : {<<>>, OtherAmount},
   pre : {<<>>, OtherAmount, NoAmount},
   where : {"inline", "kid", "post", "outer"}, gap : {0, 248, 249}]

\* the number of characters of the page text between the label and the "$"
EstimateDistance(in) == IF in.gap = 0 THEN 1 ELSE in.gap + 2

\* the parsed page of an input
EstimateSoup(in) ==
  LET amount(w) == IF in.where = w THEN EstimateAmount ELSE <<>>
      tail == (IF in.gap = 0 THEN <<>> ELSE <<" ">> \o Filler(in.gap))
              \o (IF in.where = "inline" THEN <<" ">> \o EstimateAmount ELSE <<>>)
      \* the text nodes of the label's element, and its child elements
      strings == IF in.split THEN << <<"P", "S", "A">>, <<"E", "s", "t", "i", "m", "a", "t", "e">> \o tail >>
                 ELSE << EstimateLabel \o tail >>
      kids == (IF in.split THEN << <<"P", "S", "A">> >> ELSE <<>>)
              \o (IF in.where = "kid" THEN << EstimateAmount >> ELSE <<>>)
      parent_text == GetText(strings \o << amount("kid") >>)
      grand == (IF in.pre = <<>> THEN <<>> ELSE << in.pre >>)
               \o << parent_text >> \o kids
               \o (IF in.where = "post" THEN << EstimateAmount >> ELSE <<>>)
  IN [label |-> IF \E k \in 1..Len(strings) : HasEstLabel(strings[k], 1)
                THEN Some(EstimateLabel) ELSE None,
      parent |-> kids, grand |-> grand, parent_text |-> parent_text,
      text |-> GetText(<< in.outer_pre, in.pre, parent_text, amount("post"),
                         amount("outer") >>)]

InitEstimate ==
  /\ ScanOff /\ mp = None /\ gp = None /\ ap = None /\ fp = None /\ dc = None
  /\ lc = None /\ cr = None
  /\ \E in \in EstimateInputs : ep = Some([in |-> in, done |-> FALSE, out |-> None])

\* _extract_psa_estimate_from_cert_soup applied to the page
ExtractEstimate ==
  /\ ep # None /\ ~ep[1].done
  /\ ep' = Some([ep[1] EXCEPT
                   !.done = TRUE,
                   !.out = _extract_psa_estimate_from_cert_soup(EstimateSoup(ep[1].in))])
  /\ UNCHANGED <<scanVars, mp, gp, ap, fp, dc, lc, cr>>

NextEstimate == ExtractEstimate
SpecEstimate == InitEstimate /\ [][NextEstimate]_vars

\* ------------------------------ the sales-history part of _fetch_psa_comp
\* whether the browser fallback for the table runs (the test at its head)
playwright_apr_used(soup, grade_num, use_playwright_apr) ==
  /\ grade_num # None /\ use_playwright_apr
  /\ _parse_most_recent_by_grade_from_apr_soup(soup, grade_num[1]) = None

\* what _fetch_psa_comp makes of a fetched sales-history page; parsed and
\* browsed tell whether the table parser and the browser fallback ran
fetch_psa_comp_apr(soup, grade_num, use_playwright_apr, pw_table) ==
  [most_recent_for_grade |-> most_recent_of(soup, grade_num, use_playwright_apr, pw_table),
   last_n_prices |-> last_n_prices_of(soup),
   median_recent_sales |-> median_recent_sales_of(last_n_prices_of(soup)),
   parsed |-> grade_num # None,
   browsed |-> playwright_apr_used(soup, grade_num, use_playwright_apr)]

\* n money tokens of differing values, not in ascending order
AprTokens(n) == [k \in 1..n |-> 1000 + 100 * ((7 * k) % 11)]
AprRowSets ==
  { <<>>,
    <<[grade |-> 80, price |-> Some(7000)]>>,
    <<[grade |-> 85, price |-> Some(7500)]>>,
    <<[grade |-> 85, price |-> Some(7500)], [grade |-> 80, price |-> Some(7000)]>>,
    <<[grade |-> 80, price |-> Some(7000)], [grade |-> 85, price |-> Some(7500)]>>,
    <<[grade |-> 90, price |-> None], [grade |-> 100, price |-> Some(30000)],
      [grade |-> 90, price |-> Some(10000)]>> }
AprLoose == { <<>>, <<[grade |-> 85, price |-> 7600], [grade |-> 80, price |-> 6500]>> }
AprExtras ==
  {AprTokens(n) : n \in {0, 1, 2, 3, 4, RecentCap - 4, RecentCap - 1, RecentCap + 2}}
AprGrades == {None, Some(8), Some(9)}

InitApr ==
  /\ ScanOff /\ mp = None /\ gp = None /\ ep = None /\ fp = None /\ dc = None
  /\ lc = None /\ cr = None
  /\ \E rows_ \in AprRowSets, loose \in AprLoose, extra \in AprExtras,
        use_playwright_apr \in BOOLEAN :
     \E pw_table \in (IF use_playwright_apr THEN PwTables ELSE {<<>>}) :
       ap = Some([page |-> [rows |-> rows_, loose |-> loose, extra |-> extra],
                  use_playwright_apr |-> use_playwright_apr, pw_table |-> pw_table,
                  res |-> [g \in AprGrades |-> None]])

\* one lookup of the page, with or without a target grade
ReduceApr ==
  /\ ap # None
  /\ \E g \in AprGrades :
       /\ ap[1].res[g] = None
       /\ ap' = Some([ap[1] EXCEPT !.res[g] =
                        Some(fetch_psa_comp_apr(ap[1].page, g, ap[1].use_playwright_apr,
                                                ap[1].pw_table))])
  /\ UNCHANGED <<scanVars, mp, gp, ep, fp, dc, lc, cr>>

NextApr == ReduceApr
SpecApr == InitApr /\ [][NextApr]_vars

\* ------------------------------------------------------- one _fetch alone
\* the URLs of the requests _fetch issued: the target itself for a direct
\* request, the proxy provider's URL around it for a proxy request
request_urls(url, key, reqs) ==
  [k \in 1..Len(reqs) |-> IF reqs[k] = "GET" THEN <<url>> ELSE _proxy_wrap(key, url)[1]]

FetchUrls == { CertUrl(PSA_HOSTS[1], Cert), <<"https://www.cardshq.com/collections/x?page=1">> }
ProxyKeys == {"", "SCRAPERAPI_KEY", "ZENROWS_KEY"}

InitFetch ==
  /\ ScanOff /\ mp = None /\ gp = None /\ ep = None /\ ap = None /\ dc = None
  /\ lc = None /\ cr = None
  /\ \E url \in FetchUrls, allow_proxy_fallback \in BOOLEAN,
        force_proxy \in {"None", "False", "True"}, key \in ProxyKeys,
        d \in NetOutcomes, p \in NetOutcomes :
       fp = Some([url |-> url, allow_proxy_fallback |-> allow_proxy_fallback,
                  force_proxy |-> force_proxy, key |-> key, d |-> d, p |-> p,
                  done |-> FALSE, out |-> None, requested |-> <<>>])

\* the call _fetch(url, allow_proxy_fallback=..., force_proxy=...)
Fetch ==
  /\ fp # None /\ ~fp[1].done
  /\ LET c == fp[1]
         r == _fetch(c.url, c.allow_proxy_fallback, c.force_proxy, c.key, c.d, c.p)
     IN fp' = Some([c EXCEPT !.done = TRUE, !.out = Some(r),
                             !.requested = request_urls(c.url, c.key, r.reqs)])
  /\ UNCHANGED <<scanVars, mp, gp, ep, ap, dc, lc, cr>>

NextFetch == Fetch
SpecFetch == InitFetch /\ [][NextFetch]_vars

\* ------------------------------------------- category discovery alone
\* a loop that goes on after a page without new product links
ContinueOnEmpty(n_new, pno, cap) == pno + 1 <= cap
\* "if not page_urls: break", then page += 1 and the test of the while
more_pages(n_new, pno, cap) == n_new > 0 /\ pno + 1 <= cap

\* what a category page yields: its product links, and how many of them
\* were not seen on an earlier page
PageYields == {y \in [links : 0..MaxLinks, fresh : 0..MaxLinks] : y.fresh <= y.links}

InitDiscover ==
  /\ ScanOff /\ mp = None /\ gp = None /\ ep = None /\ ap = None /\ fp = None
  /\ lc = None /\ cr = None
  /\ \E cap \in 0..MaxPagesTried :
       dc = Some([max_pages |-> cap, page |-> 1, urls |-> 0, requested |-> <<>>,
                  yields |-> <<>>, pc |-> IF 1 <= cap THEN "loop" ELSE "done"])

\* one iteration of the while loop of _discover_product_urls_for_category
DiscoverStep ==
  /\ dc # None /\ dc[1].pc = "loop"
  /\ \/ dc' = Some([dc[1] EXCEPT !.requested = Append(@, dc[1].page), !.pc = "raised"])
     \/ \E y \in PageYields :
          dc' = Some([dc[1] EXCEPT
                        !.requested = Append(@, dc[1].page),
                        !.yields = Append(@, y),
                        !.urls = @ + y.fresh,
                        !.page = IF y.fresh > 0 THEN @ + 1 ELSE @,
                        !.pc = IF more_pages(y.fresh, dc[1].page, dc[1].max_pages)
                               THEN "loop" ELSE "done"])
  /\ UNCHANGED <<scanVars, mp, gp, ep, ap, fp, lc, cr>>

NextDiscover == DiscoverStep
\* the loop goes on whenever the fetch of a page returns or raises
SpecDiscover == InitDiscover /\ [][NextDiscover]_vars /\ WF_vars(DiscoverStep)

\* --------------------------------------------- the per-category cap alone
MaxLimit == 2
MaxUrls == 3

\* the labels of the category mapping
CARDSHQ_CATEGORY_URLS == {"Baseball", "Basketball (Graded)", "Football", "Soccer", "Pokemon"}

\* the keys of a dict filled in the order of s: each key once, where first set
RECURSIVE DictKeys(_)
DictKeys(s) ==
  IF s = <<>> THEN <<>>
  ELSE LET r == DictKeys(SubSeq(s, 1, Len(s) - 1)) IN
       IF \E k \in 1..Len(r) : r[k] = s[Len(s)] THEN r ELSE Append(r, s[Len(s)])

\* the loop that fills "selected" from the labels the caller passes
selected_of(categories) ==
  DictKeys(SelectSeq(categories, LAMBDA label : label \in CARDSHQ_CATEGORY_URLS))

\* _run: "lim = None if limit == 0 else int(limit)"
lim_of(limit) == IF limit = 0 THEN None ELSE Some(limit)

\* the lists of labels the application passes
CategoryLists ==
  { <<"Baseball">>, <<"Pokemon", "Baseball">>, <<"Soccer", "Vintage", "Soccer">>, <<"Vintage">> }

\* the product pages scraped here: a listing with a certificate id, one with
\* a grade only, and one that is not PSA-like
LimitPages ==
  { pg \in ProductPages : pg.price = Some(6000) /\ ~pg.psa_in_name }

\* how _fetch_psa_comp leaves the comps loop: it returns, or raises the
\* HTTPError the loop catches, or another exception
LookupEnds == {"returned", "HTTPError", "ConnectionError"}

InitLimit ==
  /\ ScanOff /\ mp = None /\ gp = None /\ ep = None /\ ap = None /\ fp = None
  /\ dc = None /\ cr = None
  /\ \E limit \in 0..MaxLimit, categories \in CategoryLists :
       lc = Some([limit |-> limit, limit_per_category |-> lim_of(limit),
                  selected |-> selected_of(categories),
                  product_urls |-> <<>>, parsed |-> <<>>, psa_at |-> <<>>,
                  found_items |-> <<>>, rows |-> <<>>,
                  pc |-> IF selected_of(categories) = <<>> THEN "done" ELSE "discover"])

\* the state of the scan when the loops of the category in hand have ended
NextCategory(c) == IF Len(c.product_urls) < Len(c.selected) THEN "discover" ELSE "done"

\* the head of one iteration of the category loop: the discovery returns n
\* product URLs, or raises
LimitDiscover ==
  /\ lc # None /\ lc[1].pc = "discover"
  /\ \/ lc' = Some([lc[1] EXCEPT !.pc = "raised"])
     \/ \E n \in 0..MaxUrls :
          LET c == [lc[1] EXCEPT !.product_urls = Append(@, n), !.parsed = Append(@, 0),
                                 !.psa_at = Append(@, <<>>), !.found_items = <<>>]
          IN lc' = Some([c EXCEPT !.pc = IF n = 0 THEN NextCategory(c) ELSE "scrape"])
  /\ UNCHANGED <<scanVars, mp, gp, ep, ap, fp, dc, cr>>

\* one iteration of the product loop of scan_selected_categories
LimitScrape ==
  /\ lc # None /\ lc[1].pc = "scrape"
  /\ \/ lc' = Some([lc[1] EXCEPT !.pc = "raised"])
     \/ \E pg \in LimitPages :
          LET k == Len(lc[1].product_urls)
              at == lc[1].parsed[k] + 1
              item == StoreItem(pg)
              items == IF is_psa_like(item) THEN Append(lc[1].found_items, item.psa_cert # None)
                       ELSE lc[1].found_items
              stop == /\ is_psa_like(item)
                      /\ limit_reached(lc[1].limit_per_category, Len(items))
              c == [lc[1] EXCEPT !.parsed[k] = at, !.found_items = items,
                                 !.psa_at[k] = IF is_psa_like(item) THEN Append(@, at) ELSE @]
          IN lc' = Some([c EXCEPT !.pc = IF at < c.product_urls[k] /\ ~stop THEN "scrape"
                                        ELSE IF items = <<>> THEN NextCategory(c)
                                        ELSE "comps"])
  /\ UNCHANGED <<scanVars, mp, gp, ep, ap, fp, dc, cr>>

\* one iteration of the comps loop: a row for the listing, unless the lookup
\* raises an exception the loop does not catch
LimitComp ==
  /\ lc # None /\ lc[1].pc = "comps"
  /\ \E end \in LookupEnds :
       LET k == Len(lc[1].product_urls)
           c == [lc[1] EXCEPT !.found_items = Tail(@),
                              !.rows = Append(@, [Category |-> lc[1].selected[k],
                                                  PsaCert |-> Head(lc[1].found_items)])]
       IN
       IF Head(lc[1].found_items) /\ end = "ConnectionError"
       THEN lc' = Some([lc[1] EXCEPT !.pc = "raised"])
       ELSE lc' = Some([c EXCEPT !.pc = IF c.found_items = <<>> THEN NextCategory(c)
                                        ELSE "comps"])
  /\ UNCHANGED <<scanVars, mp, gp, ep, ap, fp, dc, cr>>

NextLimit == LimitDiscover \/ LimitScrape \/ LimitComp
SpecLimit == InitLimit /\ [][NextLimit]_vars

\* ------------------------------------------ the URLs of one category crawl
\* A URL is the sequence of its pieces: the scheme and host are one piece,
\* every "/" after them is a piece, and so is every name between two of them.
BASE == <<"https://www.cardshq.com">>
ProductsPath == <<"/", "products", "/">>

\* "w in txt" and txt.startswith(w)
Contains(txt, w) == \E i \in 1..Len(txt) : WordAt(txt, i, w)
startswith(txt, w) == WordAt(txt, 1, w)

\* 'if href.startswith("/"): href = BASE + href'
resolved(href) == IF startswith(href, <<"/">>) THEN BASE \o href ELSE href

\* a test that lets a URL of an earlier page through
KeepsSeenAgain(href, page_urls, urls) ==
  /\ Contains(href, ProductsPath)
  /\ startswith(resolved(href), BASE)
  /\ \A k \in 1..Len(page_urls) : page_urls[k] # resolved(href)
\* the tests an anchor's href passes before it is appended to page_urls
keeps(href, page_urls, urls) ==
  /\ Contains(href, ProductsPath)
  /\ startswith(resolved(href), BASE)
  /\ \A k \in 1..Len(page_urls) : page_urls[k] # resolved(href)
  /\ \A k \in 1..Len(urls) : urls[k] # resolved(href)

\* the loop over the anchors of one page
RECURSIVE page_urls_of(_, _)
page_urls_of(anchors, urls) ==
  IF anchors = <<>> THEN <<>>
  ELSE LET page_urls == page_urls_of(SubSeq(anchors, 1, Len(anchors) - 1), urls)
           href == anchors[Len(anchors)]
       IN IF keeps(href, page_urls, urls) THEN Append(page_urls, resolved(href))
          ELSE page_urls

\* the hrefs of the anchors of a category page: a product by its path and by
\* its full URL, another product, and a product of another site
RelA == ProductsPath \o <<"a">>
AbsA == BASE \o RelA
RelB == ProductsPath \o <<"b">>
Foreign == <<"https://x.io">> \o RelA
Hrefs == {RelA, AbsA, RelB, Foreign}

RECURSIVE SeqsUpTo(_, _)
SeqsUpTo(S, n) ==
  IF n = 0 THEN {<<>>}
  ELSE LET shorter == SeqsUpTo(S, n - 1) IN
       shorter \cup {Append(q, x) : q \in shorter, x \in S}

\* the anchors a category page can hold, in document order
AnchorLists == SeqsUpTo(Hrefs, MaxLinks)

InitCrawl ==
  /\ ScanOff /\ mp = None /\ gp = None /\ ep = None /\ ap = None /\ fp = None
  /\ dc = None /\ lc = None
  /\ \E cap \in 0..MaxPagesTried :
       cr = Some([max_pages |-> cap, page |-> 1, urls |-> <<>>, pages |-> <<>>,
                  pc |-> IF 1 <= cap THEN "loop" ELSE "done"])

\* one iteration of the while loop of _discover_product_urls_for_category,
\* on a page with the given anchors
CrawlStep ==
  /\ cr # None /\ cr[1].pc = "loop"
  /\ \/ cr' = Some([cr[1] EXCEPT !.pc = "raised"])
     \/ \E anchors \in AnchorLists :
          LET page_urls == page_urls_of(anchors, cr[1].urls) IN
          cr' = Some([cr[1] EXCEPT
                        !.pages = Append(@, anchors),
                        !.urls = @ \o page_urls,
                        !.page = IF page_urls # <<>> THEN @ + 1 ELSE @,
                        !.pc = IF more_pages(Len(page_urls), cr[1].page, cr[1].max_pages)
                               THEN "loop" ELSE "done"])
  /\ UNCHANGED <<scanVars, mp, gp, ep, ap, fp, dc, lc>>

NextCrawl == CrawlStep
SpecCrawl == InitCrawl /\ [][NextCrawl]_vars

\* ================================================================== claims
Abs(x) == IF x < 0 THEN 0 - x ELSE x
Range(s) == {s[k] : k \in 1..Len(s)}
Present(o) == o # None

\* v is the first present value of most-recent-for-grade, estimate, median,
\* and absent exactly when all three are
FirstPresent(most_recent, estimate, median, v) ==
  /\ (Present(most_recent) => v = most_recent)
  /\ (~Present(most_recent) /\ Present(estimate) => v = estimate)
  /\ (~Present(most_recent) /\ ~Present(estimate) /\ Present(median) => v = median)
  /\ (~Present(v) <=> ~Present(most_recent) /\ ~Present(estimate) /\ ~Present(median))

\* C1: the chosen comparable value is the first present of most-recent-for-
\* grade, valuation estimate and median-of-recent, absent exactly when all
\* three are absent; the same in scan_selected_categories and test_psa_cert.
C1_ComparablePriority ==
  /\ (cfg.entry = "scan" /\ Present(locals) /\ Present(comp) =>
        FirstPresent(comp[1].most_recent_for_grade, comp[1].psa_estimate,
                     comp[1].median_recent_sales, locals[1].comp_value))
  /\ (Present(test_out) =>
        FirstPresent(test_out[1].AprMostRecent, test_out[1].PsaEstimate,
                     test_out[1].AprMedianRecent, test_out[1].ChosenValue))

\* a scan chose the most recent price although an estimate and a median that
\* differ from it were there
C1_Witness ==
  /\ cfg.entry = "scan" /\ Present(locals) /\ Present(comp)
  /\ comp[1].most_recent_for_grade = Some(10000)
  /\ comp[1].psa_estimate = Some(16987)
  /\ comp[1].median_recent_sales = Some(20000)
  /\ locals[1].comp_value = Some(10000)

RowHasComparable(r) ==
  Present(r.AprMostRecent) \/ Present(r.PsaEstimate) \/ Present(r.AprMedianRecent)
RowPricePositive(r) == Present(r.StorePrice) /\ r.StorePrice[1] > 0

\* C2: in every output row expected net and ROI are both present if and only
\* if a comparable value exists and the store price is present and positive.
C2_MarginPresence ==
  \A i \in 1..Len(rows) :
    /\ (Present(rows[i].ExpectedNet) <=> Present(rows[i].Roi))
    /\ (Present(rows[i].ExpectedNet) <=>
          RowHasComparable(rows[i]) /\ RowPricePositive(rows[i]))

\* a row with a comparable value and a negative store price, without margins
C2_Witness ==
  \E i \in 1..Len(rows) :
    /\ RowHasComparable(rows[i]) /\ Present(rows[i].StorePrice)
    /\ rows[i].StorePrice[1] < 0
    /\ ~Present(rows[i].ExpectedNet) /\ ~Present(rows[i].Roi)

AllHostsFailed ==
  /\ Len(attempts) = Len(PSA_HOSTS)
  /\ \A i \in 1..Len(attempts) : attempts[i] = "failed"

\* C3: when the certificate fetch failed on every host, the bundle returned
\* has the first host's URL as cert_url and every other field absent.
C3_AllHostsFailedBundle ==
  AllHostsFailed /\ raised.exc = "none" =>
    /\ Present(comp)
    /\ comp[1].cert_url = CertUrl(PSA_HOSTS[1], Cert)
    /\ comp[1].apr_url = None /\ comp[1].psa_estimate = None
    /\ comp[1].most_recent_for_grade = None /\ comp[1].median_recent_sales = None
    /\ comp[1].last_n_prices = <<>>

\* C4: no failure of a certificate-page fetch leaves the resolver.
C4_CertFailureStaysInside == raised.at # "cert"

\* C5: when the sales-history fetch fails, the resolver still returns the
\* cert URL, the sales-history URL and the estimate it had, and the scan's
\* row shows the estimate.
C5_AprFailureKeepsEstimate ==
  cfg.entry = "scan" /\ apr_exc # "none" =>
    /\ raised.exc = "none"
    /\ Present(comp)
    /\ comp[1].cert_url = info[1].cert_url
    /\ comp[1].apr_url = info[1].apr_url
    /\ comp[1].psa_estimate = info[1].psa_estimate
    /\ comp[1].most_recent_for_grade = None /\ comp[1].median_recent_sales = None
    /\ rows # <<>> /\ rows[Len(rows)].PsaEstimate = info[1].psa_estimate

\* the comparable value a row's margins were computed from
RowComparable(r) ==
  IF Present(r.AprMostRecent) THEN r.AprMostRecent[1]
  ELSE IF Present(r.PsaEstimate) THEN r.PsaEstimate[1]
  ELSE r.AprMedianRecent[1]
\* c * (1 - f) - s in 1/100 of a cent, for c and s in cents and f in hundredths
ExactNet(r) == RowComparable(r) * (100 - cfg.fee_rate) - 100 * cfg.ship_out

\* C6: the row's expected net is c*(1-f) - s and its ROI is
\* (expected_net - p)/p*100 taken from the unrounded expected net, each
\* rounded to two decimals; c=100, f=0.13, s=5, p=60 give 82.0 and 36.67.
C6_MarginArithmetic ==
  \A i \in 1..Len(rows) :
    Present(rows[i].ExpectedNet) =>
      LET r == rows[i]
          p == r.StorePrice[1]
      IN /\ 2 * Abs(100 * r.ExpectedNet[1] - ExactNet(r)) <= 100
         /\ 2 * Abs(p * r.Roi[1] - 100 * (ExactNet(r) - 100 * p)) <= p
         /\ (RowComparable(r) = 10000 /\ cfg.fee_rate = 13 /\ cfg.ship_out = 500
             /\ p = 6000 => r.ExpectedNet = Some(8200) /\ r.Roi = Some(3667))

\* the row of the worked example
C6_Witness ==
  \E i \in 1..Len(rows) :
    /\ Present(rows[i].AprMostRecent) /\ rows[i].AprMostRecent[1] = 10000
    /\ cfg.fee_rate = 13 /\ cfg.ship_out = 500
    /\ rows[i].StorePrice = Some(6000)
    /\ rows[i].ExpectedNet = Some(8200) /\ rows[i].Roi = Some(3667)

\* C7: for a text holding exactly one currency amount, grouped or not, the
\* Money Parser returns that amount.
C7_MoneyParserReturnsAmount ==
  Present(mp) /\ mp[1].done => mp[1].out = Some(AmountValue(mp[1].amount))

IsRequest(e) == e \in {"GET", "PROXY"}
\* C8: no two network requests are issued without a throttle between them.
C8_ThrottleBetweenRequests ==
  LET s == <<prev>> \o events IN
  \A i \in 1..(Len(s) - 1) : ~(IsRequest(s[i]) /\ IsRequest(s[i + 1]))

BothTokens ==
  /\ Present(gp) /\ gp[1].done /\ gp[1].in.kind = "page"
  /\ Present(gp[1].in.psa) /\ Present(gp[1].in.label)
  /\ gp[1].in.psa[1] # gp[1].in.label[1].grade

\* C9 as stated: with a "PSA <n>" token and a "GRADE: ... <m>" token of
\* different numbers on the page, the grade is the one of the PSA token.
C9_PsaTokenWins ==
  BothTokens =>
    /\ gp[1].grade_text = Some(PsaToken(gp[1].in.psa[1]))
    /\ gp[1].grade_num = Some(gp[1].in.psa[1] \div 10)

\* C9 amended: the first matching pattern in the order "GRADE:" label, then
\* "PSA <n>" token wins: with both on the page the grade is the label's,
\* with the label alone or the token alone it is that one's, with neither it
\* is absent.
C9_GradeLabelWins ==
  Present(gp) /\ gp[1].done /\ gp[1].in.kind = "page" =>
    LET in == gp[1].in IN
    /\ (Present(in.label) =>
          /\ gp[1].grade_text = Some(in.label[1].desc.titled
                                     \o GradeNumberText(in.label[1].grade))
          /\ gp[1].grade_num = Some(in.label[1].grade \div 10))
    /\ (~Present(in.label) /\ Present(in.psa) =>
          /\ gp[1].grade_text = Some(PsaToken(in.psa[1]))
          /\ gp[1].grade_num = Some(in.psa[1] \div 10))
    /\ (~Present(in.label) /\ ~Present(in.psa) =>
          gp[1].grade_text = None /\ gp[1].grade_num = None)

\* "PSA 9" before "GRADE: MINT 8" on the page, and the grade extracted is 8
C9_Witness ==
  /\ BothTokens /\ gp[1].in.psa_first
  /\ gp[1].in.psa = Some(90) /\ gp[1].in.label[1].grade = 80
  /\ gp[1].grade_num = Some(8)

\* C10: "PSA <n>" with n in 1..10 gives n, a half grade gives its integer
\* part, and a text without a digit gives absent.
C10_GradeNumber ==
  Present(gp) /\ gp[1].done /\ gp[1].in.kind = "text" =>
    /\ (Present(gp[1].in.grade) => gp[1].grade_num = Some(gp[1].in.grade[1] \div 10))
    /\ (~Present(gp[1].in.grade) => gp[1].grade_num = None)

\* "PSA 10" parsed to 10
C10_Witness ==
  /\ Present(gp) /\ gp[1].done /\ gp[1].in.kind = "text"
  /\ gp[1].in.grade = Some(100) /\ gp[1].grade_num = Some(10)

\* C11: a page with the label "PSA Estimate" followed within 250 characters
\* by "$169.87" gives the estimate 169.87, by the container search or by the
\* fallback pattern, also when an element before the label in the enclosing
\* element holds another amount.
C11_EstimateRoundTrip ==
  Present(ep) /\ ep[1].done /\ EstimateDistance(ep[1].in) <= 250 =>
    ep[1].out = Some(16987)

\* m stands at index k (counted from 0) of the ascending sort of l
AtSortedIndex(l, k, m) ==
  /\ \E i \in 1..Len(l) : l[i] = m
  /\ Cardinality({i \in 1..Len(l) : l[i] < m}) <= k
  /\ k < Cardinality({i \in 1..Len(l) : l[i] <= m})
AprDone(g) == Present(ap) /\ Present(ap[1].res[g])
AprOut(g) == ap[1].res[g][1]

\* C12: the recent-price list is the first 25 money tokens of the page at
\* most, in page order; its median is the element at index floor(n/2) of its
\* ascending sort, and absent for an empty list.
C12_RecentListAndMedian ==
  \A g \in AprGrades :
    AprDone(g) =>
      LET l == AprOut(g).last_n_prices
          toks == text_prices(ap[1].page)
      IN /\ Len(l) <= 25 /\ Len(l) = Min(25, Len(toks))
         /\ \A i \in 1..Len(l) : l[i] = toks[i]
         /\ (l = <<>> => AprOut(g).median_recent_sales = None)
         /\ (l # <<>> => /\ Present(AprOut(g).median_recent_sales)
                         /\ AtSortedIndex(l, Len(l) \div 2, AprOut(g).median_recent_sales[1]))

\* a page of more than 25 money tokens, cut to 25
C12_Witness ==
  \E g \in AprGrades :
    /\ AprDone(g) /\ Len(text_prices(ap[1].page)) > 25
    /\ Len(AprOut(g).last_n_prices) = 25 /\ Present(AprOut(g).median_recent_sales)

EvenCount(g) ==
  AprDone(g) /\ AprOut(g).last_n_prices # <<>> /\ Len(AprOut(g).last_n_prices) % 2 = 0

\* C13 as stated: for an even number of recent prices the median is the
\* lower of the two middle elements of the sorted list.
C13_LowerMiddle ==
  \A g \in AprGrades :
    EvenCount(g) =>
      AtSortedIndex(AprOut(g).last_n_prices, (Len(AprOut(g).last_n_prices) \div 2) - 1,
                    AprOut(g).median_recent_sales[1])

\* C13 amended: for an even number of recent prices the median is the upper
\* of the two middle elements of the sorted list.
C13_UpperMiddle ==
  \A g \in AprGrades :
    EvenCount(g) =>
      LET l == AprOut(g).last_n_prices
          m == AprOut(g).median_recent_sales[1]
      IN /\ AtSortedIndex(l, Len(l) \div 2, m)
         /\ \A i \in 1..Len(l) : AtSortedIndex(l, (Len(l) \div 2) - 1, l[i]) => l[i] <= m

\* two prices 17.00 and 13.00: the median is 17.00
C13_Witness ==
  \E g \in AprGrades :
    /\ EvenCount(g) /\ AprOut(g).last_n_prices = <<1700, 1300>>
    /\ AprOut(g).median_recent_sales = Some(1700)

\* C16: the value read from the table is the price of a row whose first cell
\* names exactly the target grade, the first such row that holds a price;
\* a row of another grade never supplies it.
C16_ExactGradeRow ==
  \A g \in AprGrades :
    AprDone(g) /\ g # None /\ ap[1].page.loose = <<>> /\ ~ap[1].use_playwright_apr =>
      LET rows_ == ap[1].page.rows
          exact == {i \in 1..Len(rows_) : rows_[i].grade = 10 * g[1] /\ rows_[i].price # None}
      IN IF exact = {} THEN AprOut(g).most_recent_for_grade = None
         ELSE \E i \in exact : /\ \A j \in exact : i <= j
                               /\ AprOut(g).most_recent_for_grade = rows_[i].price

\* C17: without a target grade the most-recent-for-grade extraction is
\* skipped (no value, no table parse, no browser fallback), and the recent
\* prices and their median are those of a lookup with a grade.
C17_NoGradeSkipsExtraction ==
  AprDone(None) =>
    /\ AprOut(None).most_recent_for_grade = None
    /\ ~AprOut(None).parsed /\ ~AprOut(None).browsed
    /\ \A g \in AprGrades :
         AprDone(g) => /\ AprOut(g).last_n_prices = AprOut(None).last_n_prices
                       /\ AprOut(g).median_recent_sales = AprOut(None).median_recent_sales

\* the same page looked up without a grade and with grade 8, which the
\* table prices
C17_Witness ==
  /\ AprDone(None) /\ AprDone(Some(8))
  /\ AprOut(Some(8)).most_recent_for_grade = Some(7000)
  /\ AprOut(None).most_recent_for_grade = None
  /\ AprOut(None).last_n_prices # <<>>

\* C14: within a lookup the hosts are tried in the order of the host list,
\* no host is requested after one that returned a page, that host's page is
\* the one used, and the sales-history page is requested only once the
\* certificate page was obtained with a sales-history link on it.
C14_LookupOrder ==
  /\ Len(attempts) <= Len(PSA_HOSTS)
  /\ (pc = "cert" => host = Len(attempts) + 1)
  /\ \A i \in 1..(Len(attempts) - 1) : attempts[i] = "failed"
  /\ (Present(info) /\ attempts # <<>> =>
        info[1].cert_url = CertUrl(PSA_HOSTS[Len(attempts)], cur[1].psa_cert[1]))
  /\ (pc = "apr" =>
        /\ Present(info) /\ Present(info[1].apr_url)
        /\ attempts # <<>> /\ attempts[Len(attempts)] = "ok")

\* the first host failed, the second returned a page with a sales-history
\* link, and the sales-history request is next
C14_Witness ==
  /\ attempts = <<"failed", "ok">> /\ pc = "apr"
  /\ info[1].cert_url = CertUrl(PSA_HOSTS[2], Cert)

\* C15: a lookup that fails, at the certificate page or at the sales-history
\* page, does not end the scan: the listing still gets its row, with the
\* comparable fields, expected net and ROI absent.
C15_ScanSurvivesLookupFailure ==
  cfg.entry = "scan" =>
    /\ raised.at \notin {"cert", "apr"}
    /\ (Present(locals) /\ (comp = None \/ AllHostsFailed) =>
          LET r == rows[Len(rows)] IN
          /\ r.PsaEstimate = None /\ r.AprMostRecent = None /\ r.AprMedianRecent = None
          /\ r.ExpectedNet = None /\ r.Roi = None)

FetchDone == Present(fp) /\ fp[1].done
TlsError(o) == o.exc = "SSLError"

\* C18: in auto mode with a proxy key, a direct fetch that fails with a TLS
\* error is followed by exactly one proxy request for the same URL, whose
\* outcome is the fetch's; without a key, or with the fallback not allowed,
\* the TLS error is re-raised with no further request; a failure that is not
\* a TLS error triggers no proxy request.
C18_TlsProxyFallback ==
  FetchDone =>
    LET c == fp[1]
        out == c.out[1]
    IN /\ (c.force_proxy = "None" /\ c.key # "" /\ c.allow_proxy_fallback /\ TlsError(c.d) =>
             /\ out.reqs = <<"GET", "PROXY">>
             /\ c.requested[1] = <<c.url>>
             /\ c.requested[2][2] = c.url
             /\ c.requested[2][1] \in {"https://api.scraperapi.com/", "https://api.zenrows.com/v1/"}
             /\ out.exc = (IF c.p.exc # "none" THEN c.p.exc
                           ELSE IF c.p.status >= 400 THEN "HTTPError" ELSE "none")
             /\ out.status = c.p.status)
       /\ (c.force_proxy = "None" /\ TlsError(c.d) /\ (c.key = "" \/ ~c.allow_proxy_fallback) =>
             out.exc = "SSLError" /\ c.requested = << <<c.url>> >>)
       /\ (c.force_proxy # "True" /\ ~TlsError(c.d) =>
             /\ c.requested = << <<c.url>> >>
             /\ out.exc = (IF c.d.exc # "none" THEN c.d.exc
                           ELSE IF c.d.status >= 400 THEN "HTTPError" ELSE "none"))

\* a TLS error on the direct request, then the proxy's answer 200 returned
C18_Witness ==
  /\ FetchDone /\ fp[1].force_proxy = "None" /\ fp[1].key = "ZENROWS_KEY"
  /\ TlsError(fp[1].d) /\ fp[1].p = Ok
  /\ fp[1].out[1].reqs = <<"GET", "PROXY">> /\ fp[1].out[1].exc = "none"

DiscoverOrder ==
  Present(dc) =>
    LET c == dc[1] IN
    /\ c.requested = [k \in 1..Len(c.requested) |-> k]
    /\ Len(c.requested) <= c.max_pages
    /\ \A k \in 1..Len(c.yields) : c.yields[k].links = 0 => k = Len(c.requested)

\* C19: pagination requests the pages 1, 2, 3, ... in order, requests no
\* page after one that yielded no product link, never requests more than
\* max_pages pages, and ends.
C19_PaginationTerminates ==
  []DiscoverOrder /\ <>(Present(dc) /\ dc[1].pc # "loop")

\* every page had new links and the cap of three pages ended the loop
C19_Witness ==
  /\ Present(dc) /\ dc[1].pc = "done" /\ dc[1].max_pages = 3
  /\ dc[1].requested = <<1, 2, 3>>
  /\ \A k \in 1..3 : dc[1].yields[k].fresh > 0

\* C20: in forced-proxy mode no request goes to the target directly, and
\* without a proxy key none is issued at all and the fetch fails; in
\* direct-only mode no request goes to the proxy.
C20_ExclusiveModes ==
  LET s == <<prev>> \o events IN
  /\ (cfg.force_proxy = "True" => \A i \in 1..Len(s) : s[i] \notin {"GET", "PW"})
  /\ (cfg.force_proxy = "True" /\ cfg.key = "" =>
        /\ \A i \in 1..Len(s) : s[i] \notin {"GET", "PROXY", "PW"}
        /\ raised.exc \in {"none", "RuntimeError"})
  /\ (cfg.force_proxy = "False" => \A i \in 1..Len(s) : s[i] # "PROXY")

\* the rows of the category at position k of the selection
RowsOf(c, k) == SelectSeq(c.rows, LAMBDA r : r.Category = c.selected[k])
\* the product loop of the category at position k has ended
ScrapeEnded(c, k) == k < Len(c.product_urls) \/ c.pc \in {"comps", "discover", "done"}
\* the comps loop of the category at position k has ended
CompsEnded(c, k) == k < Len(c.product_urls) \/ c.pc \in {"discover", "done"}

\* C21: with a cap L > 0 a category never collects more than L PSA-like
\* listings, no product page is scraped after the one that supplied the
\* L-th, every product page is scraped when fewer than L were found, and the
\* category has at most L rows; a cap of 0 in the UI is no cap: every product
\* page is scraped and every PSA-like listing gets its row.
C21_CategoryCap ==
  Present(lc) =>
    LET c == lc[1] IN
    \A k \in 1..Len(c.product_urls) :
      LET found == Len(c.psa_at[k]) IN
      /\ c.parsed[k] <= c.product_urls[k]
      /\ Len(RowsOf(c, k)) <= found
      /\ c.limit > 0 =>
           /\ found <= c.limit
           /\ Len(RowsOf(c, k)) <= c.limit
           /\ (found = c.limit => c.parsed[k] = c.psa_at[k][c.limit])
           /\ (found < c.limit /\ ScrapeEnded(c, k) => c.parsed[k] = c.product_urls[k])
      /\ c.limit = 0 =>
           /\ (ScrapeEnded(c, k) => c.parsed[k] = c.product_urls[k])
           /\ (CompsEnded(c, k) => Len(RowsOf(c, k)) = found)

\* two categories under a cap of 1: each stopped at its first PSA-like
\* listing with product pages left, and each has one row
C21_Witness ==
  /\ Present(lc) /\ lc[1].pc = "done" /\ lc[1].limit = 1
  /\ lc[1].product_urls = <<3, 3>> /\ lc[1].psa_at = <<<<2>>, <<1>>>>
  /\ lc[1].parsed = <<2, 1>> /\ Len(lc[1].rows) = 2

\* the product links of the site among the anchors, as absolute URLs
ProductLinks(anchors) ==
  SelectSeq([k \in 1..Len(anchors) |-> resolved(anchors[k])],
            LAMBDA u : startswith(u, BASE) /\ Contains(u, ProductsPath))
\* the product links of the pages 1..n, in the order met
RECURSIVE LinksMet(_, _)
LinksMet(pages, n) ==
  IF n = 0 THEN <<>> ELSE LinksMet(pages, n - 1) \o ProductLinks(pages[n])
\* the elements of s in the order of their first occurrences
RECURSIVE FirstOccurrences(_)
FirstOccurrences(s) ==
  IF s = <<>> THEN <<>>
  ELSE LET front == SubSeq(s, 1, Len(s) - 1) IN
       IF \E k \in 1..Len(front) : front[k] = s[Len(s)] THEN FirstOccurrences(front)
       ELSE Append(FirstOccurrences(front), s[Len(s)])

\* C22: the discovered URLs are the product links of the site met on the
\* pages requested, each once and in the order first met; each starts with
\* the base URL and contains "/products/"; and a page all of whose product
\* links were met before is the last page requested and ends the crawl.
C22_DiscoveredUrls ==
  Present(cr) =>
    LET c == cr[1] IN
    /\ \A i, j \in 1..Len(c.urls) : i # j => c.urls[i] # c.urls[j]
    /\ \A i \in 1..Len(c.urls) :
         startswith(c.urls[i], BASE) /\ Contains(c.urls[i], ProductsPath)
    /\ c.urls = FirstOccurrences(LinksMet(c.pages, Len(c.pages)))
    /\ \A k \in 1..Len(c.pages) :
         Range(ProductLinks(c.pages[k])) \subseteq Range(LinksMet(c.pages, k - 1))
         => k = Len(c.pages) /\ c.pc = "done"

\* the second page repeats, by its full URL, the product the first page
\* links by path, and the crawl ends there with a page to spare
C22_Witness ==
  /\ Present(cr) /\ cr[1].pc = "done" /\ cr[1].max_pages = 3
  /\ cr[1].pages = << <<RelB, RelA>>, <<AbsA>> >>
  /\ cr[1].urls = << BASE \o RelB, AbsA >>

====
